---- MODULE Spec2Model ----
(***************************************************************************)
(* talpa: Cloudflare Tunnel route manager (src/src/main.rs).               *)
(*                                                                         *)
(* The model covers the three route commands (dig = cmd_add, plug =        *)
(* cmd_remove, list = cmd_list), the CfClient calls they make, and the two *)
(* remote resources they act on: the tunnel configuration (an ordered      *)
(* ingress list plus other configuration fields) and the zone's DNS        *)
(* records.  One action is one blocking remote round trip together with    *)
(* the local code that runs up to the next round trip.                     *)
(***************************************************************************)
EXTENDS Naturals, Sequences, FiniteSets

(* ---------------------------------------------------------------- bounds *)

\* Longest ingress list the remote holds initially.
MaxInitLen == 3

\* Command invocations started in one behaviour of Spec.
MaxInvocations == 2

(* ------------------------------------------------------------ value sets *)

\* Option::None
None == "None"

\* The command processes.  Spec runs invocations one at a time on process 1;
\* SpecConc runs one invocation on each process, interleaved.
Procs == {1, 2}

Hostnames == {"a.example.com", "b.example.com"}

\* The service a dig command is given.
NewService == "http://localhost:8080"

\* A rule of the remote ingress list as the JSON object on the wire: the
\* three keys IngressRule declares, and `undeclared`, the keys it does not
\* declare (a Cloudflare ingress rule may carry "path").  IngressRule has no
\* #[serde(flatten)] field and no deny_unknown_fields, so serde skips such
\* keys when reading; TunnelConfigInner, one level up, keeps them in `extra`.
WireRule(h, s, o, u) ==
    [hostname |-> h, service |-> s, originRequest |-> o, undeclared |-> u]

\* struct IngressRule
IngressRule(h, s, o) ==
    [hostname |-> h, service |-> s, origin_request |-> o]

\* The rules the remote list is initially built from.
InitRules ==
    { WireRule("a.example.com", "http://localhost:3000", "noTLSVerify", None),
      WireRule("a.example.com", "http://localhost:4000", None, "path=/api"),
      WireRule(None, "http_status:404", "connectTimeout", None) }

\* The configuration fields beside `ingress` (e.g. "warp-routing").
InitExtra == "warp-routing"

\* All sequences over S of length at most n.
RECURSIVE SeqsUpTo(_, _)
SeqsUpTo(S, n) ==
    IF n = 0 THEN { <<>> }
    ELSE LET shorter == SeqsUpTo(S, n - 1)
         IN  shorter \cup { Append(q, x) : q \in shorter, x \in S }

\* A DNS record of the zone: its id and its name (all records are CNAMEs).
DnsRecord(i, n) == [id |-> i, name |-> n]

\* The record lists the zone holds initially: none, one per hostname, or
\* two records sharing a hostname.
InitDns ==
    { <<>>,
      << DnsRecord("rec1", "a.example.com") >>,
      << DnsRecord("rec1", "a.example.com"), DnsRecord("rec2", "a.example.com") >> }

\* How a remote round trip ends: the envelope says success, the envelope
\* says success=false (the HTTP status is then an error status), or
\* send()/json() returns Err.  A round trip that does not end "ok" has no
\* effect on the remote resource.
Responses == {"ok", "api_error", "transport"}

\* get_tunnel_config can also see success=true with result null.
GetResponses == Responses \cup {"no_payload"}

(* ----------------------------------------------------------------- state *)

VARIABLES
    remote,     \* the tunnel configuration held by Cloudflare: [ingress, extra]
    dns,        \* the zone's CNAME records, in the order a GET returns them
    pc,         \* per process: the next round trip of the running command
    cmd,        \* per process: Commands variant and its arguments
    config,     \* per process: `config` of cmd_add / cmd_remove / cmd_list
    fetched,    \* per process: `config` as get_tunnel_config returned it
    record_id,  \* per process: `id` bound by the match in cmd_remove
    result,     \* per process: what main returns, and the warning printed
    calls,      \* per process: the round trips issued, with how each ended
    returned,   \* per process: the Err (or None for Ok) each CfClient call returned
    stdout,     \* per process: the route lines cmd_list printed
    base,       \* per process: remote and dns when the command started
    writes,     \* the PUTs the remote accepted, oldest first
    started     \* number of commands started

vars == << remote, dns, pc, cmd, config, fetched, record_id, result, calls,
           returned, stdout, base, writes, started >>

(* ------------------------------------------------------- wire <-> struct *)

\* #[derive(Deserialize)] struct IngressRule: the three declared keys are
\* read, a key the struct does not declare is ignored.
DeserializeRule(w) == IngressRule(w.hostname, w.service, w.originRequest)

\* #[derive(Serialize)] struct IngressRule: the declared keys are written
\* (a None hostname or originRequest is skipped); nothing else is.
SerializeRule(r) == WireRule(r.hostname, r.service, r.origin_request, None)

\* struct TunnelConfigInner, read: `ingress` rule by rule, every other key
\* of the configuration object is collected by #[serde(flatten)] extra.
DeserializeConfig(w) ==
    [ingress |-> [i \in 1..Len(w.ingress) |-> DeserializeRule(w.ingress[i])],
     extra   |-> w.extra]

\* struct TunnelConfigInner, written: the body of the PUT.
SerializeConfig(c) ==
    [ingress |-> [i \in 1..Len(c.ingress) |-> SerializeRule(c.ingress[i])],
     extra   |-> c.extra]

(* ------------------------------------------------- local code of commands *)

\* config.ingress.iter().any(|r| r.hostname.as_deref() == Some(hostname))
has_hostname(ingress, hostname) ==
    \E i \in 1..Len(ingress) : ingress[i].hostname = hostname

\* push_before_last with the new rule pushed after the popped rule.
push_after_last(ingress, hostname, service) ==
    Append(ingress, IngressRule(hostname, service, None))

\* pop the last rule, push the new rule, push the popped rule back.
\* Called on a non-empty list only (pop() of an empty list is the error).
push_before_last(ingress, hostname, service) ==
    LET catch_all == ingress[Len(ingress)]
        popped    == SubSeq(ingress, 1, Len(ingress) - 1)
    IN  Append(Append(popped, IngressRule(hostname, service, None)), catch_all)

\* retain that drops the first matching rule only.
retain_first(ingress, hostname) ==
    LET hit == { i \in 1..Len(ingress) : ingress[i].hostname = hostname }
        first == CHOOSE i \in hit : \A k \in hit : i <= k
    IN  IF hit = {} THEN ingress
        ELSE SubSeq(ingress, 1, first - 1) \o SubSeq(ingress, first + 1, Len(ingress))

\* retain that keeps only rules naming another hostname (a rule without a
\* hostname is dropped too).
retain_named_only(ingress, hostname) ==
    LET keep(r) == r.hostname # None /\ r.hostname # hostname
    IN  SelectSeq(ingress, keep)

\* config.ingress.retain(|r| r.hostname.as_deref() != Some(hostname))
retain(ingress, hostname) ==
    LET keep(r) == r.hostname # hostname
    IN  SelectSeq(ingress, keep)

\* cmd_add_error without the duplicate check.
cmd_add_error_no_duplicate_check(ingress, hostname) ==
    IF ingress = << >> THEN "InvariantViolation" ELSE None

\* The error cmd_add bails with before any write, or None.
cmd_add_error(ingress, hostname) ==
    IF has_hostname(ingress, hostname) THEN "DuplicateRoute"
    ELSE IF ingress = << >> THEN "InvariantViolation"
    ELSE None

\* cmd_add_edit with a missing last rule tolerated: the new rule is pushed
\* onto the empty list.
cmd_add_edit_pop_optional(ingress, hostname, service) ==
    IF has_hostname(ingress, hostname)
    THEN [error |-> "DuplicateRoute", ingress |-> ingress]
    ELSE IF ingress = << >>
    THEN [error |-> None,
          ingress |-> << IngressRule(hostname, service, None) >>]
    ELSE [error |-> None,
          ingress |-> push_before_last(ingress, hostname, service)]

\* The local code of cmd_add between the fetch and the write: the error it
\* bails with and config.ingress as it then stands (a bail comes before any
\* push; pop() of an empty list leaves it empty).
cmd_add_edit(ingress, hostname, service) ==
    IF cmd_add_error(ingress, hostname) # None
    THEN [error |-> cmd_add_error(ingress, hostname), ingress |-> ingress]
    ELSE [error |-> None,
          ingress |-> push_before_last(ingress, hostname, service)]

\* cmd_remove_error without the length comparison.
cmd_remove_error_no_length_check(ingress, hostname) == None

\* The error cmd_remove bails with before any write, or None.
cmd_remove_error(ingress, hostname) ==
    IF Len(retain(ingress, hostname)) = Len(ingress) THEN "RouteNotFound"
    ELSE None

\* cmd_list_lines with the rules walked from the last to the first.
cmd_list_lines_reversed(ingress) ==
    [i \in 1..Len(ingress) |->
        LET r == ingress[Len(ingress) + 1 - i]
        IN  [kind |-> IF r.hostname # None THEN "route" ELSE "catch-all",
             hostname |-> r.hostname, service |-> r.service]]

\* The route lines cmd_list prints, one per rule in list order (its total
\* is the number of "route" lines).
cmd_list_lines(ingress) ==
    [i \in 1..Len(ingress) |->
        IF ingress[i].hostname # None
        THEN [kind |-> "route", hostname |-> ingress[i].hostname,
              service |-> ingress[i].service]
        ELSE [kind |-> "catch-all", hostname |-> None,
              service |-> ingress[i].service]]

(* ------------------------------------------------------- client outcomes *)

\* checked_call_error with a missing payload taken as an empty one.
checked_call_error_payload_defaulted(resp) ==
    CASE resp = "ok"         -> None
      [] resp = "api_error"  -> "ApiError"
      [] resp = "transport"  -> "TransportFailure"
      [] resp = "no_payload" -> None

\* checked_call_error with resp.success not read.
checked_call_error_success_unread(resp) ==
    CASE resp = "ok"         -> None
      [] resp = "api_error"  -> None
      [] resp = "transport"  -> "TransportFailure"
      [] resp = "no_payload" -> "MissingPayload"

\* Result<T> of a CfClient method that checks resp.success: Err on a
\* transport failure and on success=false.
checked_call_error(resp) ==
    CASE resp = "ok"         -> None
      [] resp = "api_error"  -> "ApiError"
      [] resp = "transport"  -> "TransportFailure"
      [] resp = "no_payload" -> "MissingPayload"

\* find_record_id: Err only from send()/json(); resp.success is not read.
find_record_id_error(resp) ==
    IF resp = "transport" THEN "TransportFailure" ELSE None

\* delete_record: Err only from send(); the response is not read.
delete_record_error(resp) ==
    IF resp = "transport" THEN "TransportFailure" ELSE None

\* find_record_id_value taking the last record returned.
find_record_id_value_last(records, hostname, resp) ==
    LET named(r) == r.name = hostname
        matches  == SelectSeq(records, named)
    IN  IF resp = "ok" /\ matches # << >> THEN matches[Len(matches)].id ELSE None

\* find_record_id_value of a query that matches no record (wrong type).
find_record_id_value_no_match(records, hostname, resp) == None

\* find_record_id_value of a query without the name filter.
find_record_id_value_any_name(records, hostname, resp) ==
    IF resp = "ok" /\ records # << >> THEN records[1].id ELSE None

\* resp.result.as_ref().and_then(|v| v.first()).map(|r| r.id.clone()):
\* the records named `hostname` come back in zone order on "ok"; a
\* success=false envelope carries a null result.
find_record_id_value(records, hostname, resp) ==
    LET named(r) == r.name = hostname
        matches  == SelectSeq(records, named)
    IN  IF resp = "ok" /\ matches # << >> THEN matches[1].id ELSE None

\* put_effect of a remote that keeps the rules the body does not name.
put_effect_merge(current, body) ==
    LET unnamed(r) == r.hostname # None /\ ~ has_hostname(body.ingress, r.hostname)
    IN  [body EXCEPT !.ingress = SelectSeq(current.ingress, unnamed) \o @]

\* What the remote tunnel configuration is after an accepted PUT: the
\* request body replaces it whole.
put_effect(current, body) == body

\* The ids Cloudflare gives to records (DnsRecord.id is a String).
RecordIds == {"rec1", "rec2", "rec3", "rec4", "rec5", "rec6", "rec7", "rec8"}

\* An id no record of the zone has.
NewId(records) ==
    CHOOSE i \in RecordIds : \A k \in 1..Len(records) : records[k].id # i

\* What main returns.
Running == [outcome |-> "Running", error |-> None, warning |-> None]
Success == [outcome |-> "Success", error |-> None, warning |-> None]
SuccessWithWarning(w) ==
    [outcome |-> "SuccessWithWarning", error |-> None, warning |-> w]
Failure(e) == [outcome |-> "Failure", error |-> e, warning |-> None]

\* cmd_add_result with the Err of create_cname returned by `?`.
cmd_add_result_propagated(error) ==
    IF error = None THEN Success ELSE Failure(error)

\* match cf.create_cname(hostname): Ok prints ok, Err prints the warning;
\* cmd_add returns Ok(()) either way.
cmd_add_result(error) ==
    IF error = None THEN Success ELSE SuccessWithWarning("DnsSyncFailed")

\* cf.delete_record(&id)?: Err is returned from cmd_remove.
cmd_remove_delete_result(error) ==
    IF error = None THEN Success ELSE Failure(error)

NoConfig == [ingress |-> << >>, extra |-> None]
NoCommand == [op |-> None, hostname |-> None, service |-> None]

(* ---------------------------------------------------------------- actions *)

TypeOK ==
    /\ pc \in [Procs -> {"idle", "get", "put", "create", "find", "delete", "done"}]
    /\ \A p \in Procs :
        /\ cmd[p].op \in {None, "add", "remove", "list"}
        /\ result[p].outcome \in
               {"Running", "Success", "SuccessWithWarning", "Failure"}
    /\ started \in 0..(MaxInvocations + 1)

Init ==
    /\ remote \in [ingress : SeqsUpTo(InitRules, MaxInitLen), extra : {InitExtra}]
    /\ dns \in InitDns
    /\ pc = [p \in Procs |-> "idle"]
    /\ cmd = [p \in Procs |-> NoCommand]
    /\ config = [p \in Procs |-> NoConfig]
    /\ fetched = [p \in Procs |-> NoConfig]
    /\ record_id = [p \in Procs |-> None]
    /\ result = [p \in Procs |-> Running]
    /\ calls = [p \in Procs |-> << >>]
    /\ returned = [p \in Procs |-> << >>]
    /\ stdout = [p \in Procs |-> << >>]
    /\ base = [p \in Procs |-> [remote |-> remote, dns |-> dns]]
    /\ writes = << >>
    /\ started = 0

\* Return with a round trip that failed in transport tried again, while the
\* command has issued fewer than three round trips.
Return_retry(p, r) ==
    IF r.error = "TransportFailure" /\ Len(calls[p]) < 2
    THEN UNCHANGED << pc, result >>
    ELSE /\ pc' = [pc EXCEPT ![p] = "done"]
         /\ result' = [result EXCEPT ![p] = r]

\* The command ends: main returns r.
Return(p, r) ==
    /\ pc' = [pc EXCEPT ![p] = "done"]
    /\ result' = [result EXCEPT ![p] = r]

Issue(p, kind, resp) ==
    calls' = [calls EXCEPT ![p] = Append(@, [kind |-> kind, resp |-> resp])]

\* The CfClient method called returns Err(error), or Ok when error is None.
Returns(p, error) ==
    returned' = [returned EXCEPT ![p] = Append(@, error)]

\* main: parse the command line, read the credentials from the keychain,
\* build the client.  A keychain failure ends the command before any
\* round trip.
main(p) ==
    /\ pc[p] \in {"idle", "done"}
    /\ started < MaxInvocations
    /\ started' = started + 1
    /\ \E c \in  { [op |-> "add", hostname |-> h, service |-> NewService] :
                       h \in Hostnames }
            \cup { [op |-> "remove", hostname |-> h, service |-> None] :
                       h \in Hostnames }
            \cup { [op |-> "list", hostname |-> None, service |-> None] } :
         cmd' = [cmd EXCEPT ![p] = c]
    /\ config' = [config EXCEPT ![p] = NoConfig]
    /\ fetched' = [fetched EXCEPT ![p] = NoConfig]
    /\ record_id' = [record_id EXCEPT ![p] = None]
    /\ calls' = [calls EXCEPT ![p] = << >>]
    /\ returned' = [returned EXCEPT ![p] = << >>]
    /\ stdout' = [stdout EXCEPT ![p] = << >>]
    /\ base' = [base EXCEPT ![p] = [remote |-> remote, dns |-> dns]]
    /\ \E from_keychain \in {"ok", "failed"} :
         IF from_keychain = "ok"
         THEN /\ pc' = [pc EXCEPT ![p] = "get"]
              /\ result' = [result EXCEPT ![p] = Running]
         ELSE Return(p, Failure("CredentialNotFound"))
    /\ UNCHANGED << remote, dns, writes >>

\* cf.get_tunnel_config()? and the local code that follows it in cmd_add,
\* cmd_remove and cmd_list, up to the next round trip.
get_tunnel_config(p) ==
    /\ pc[p] = "get"
    /\ \E resp \in GetResponses :
        LET error == checked_call_error(resp)
            got   == DeserializeConfig(remote)
            h     == cmd[p].hostname
        IN  /\ Issue(p, "get", resp)
            /\ Returns(p, error)
            /\ IF error # None
               THEN /\ Return(p, Failure(error))
                    /\ UNCHANGED << config, fetched, stdout >>
               ELSE /\ fetched' = [fetched EXCEPT ![p] = got]
                    /\ CASE cmd[p].op = "add" ->
                              /\ UNCHANGED stdout
                              /\ LET edit == cmd_add_edit(got.ingress, h, cmd[p].service)
                                 IN  /\ config' = [config EXCEPT ![p] =
                                            [got EXCEPT !.ingress = edit.ingress]]
                                     /\ IF edit.error # None
                                        THEN Return(p, Failure(edit.error))
                                        ELSE /\ pc' = [pc EXCEPT ![p] = "put"]
                                             /\ UNCHANGED result
                         [] cmd[p].op = "remove" ->
                              /\ UNCHANGED stdout
                              /\ config' = [config EXCEPT ![p] =
                                    [got EXCEPT !.ingress = retain(@, h)]]
                              /\ IF cmd_remove_error(got.ingress, h) # None
                                 THEN Return(p, Failure(cmd_remove_error(got.ingress, h)))
                                 ELSE /\ pc' = [pc EXCEPT ![p] = "put"]
                                      /\ UNCHANGED result
                         [] cmd[p].op = "list" ->
                              /\ config' = [config EXCEPT ![p] = got]
                              /\ stdout' = [stdout EXCEPT ![p] =
                                                cmd_list_lines(got.ingress)]
                              /\ Return(p, Success)
    /\ UNCHANGED << remote, dns, cmd, record_id, base, writes, started >>

\* cf.put_tunnel_config(config)? in cmd_add and cmd_remove.
put_tunnel_config(p) ==
    /\ pc[p] = "put"
    /\ \E resp \in Responses :
        LET error == checked_call_error(resp)
        IN  /\ Issue(p, "put", resp)
            /\ Returns(p, error)
            /\ IF error # None
               THEN /\ Return(p, Failure(error))
                    /\ UNCHANGED << remote, writes >>
               ELSE /\ remote' = put_effect(remote, SerializeConfig(config[p]))
                    /\ writes' = Append(writes,
                          [proc |-> p, cmd |-> cmd[p], before |-> remote])
                    /\ pc' = [pc EXCEPT ![p] =
                                 IF cmd[p].op = "add" THEN "create" ELSE "find"]
                    /\ UNCHANGED result
    /\ UNCHANGED << dns, cmd, config, fetched, record_id, stdout, base, started >>

\* match cf.create_cname(hostname) in cmd_add, and the return of cmd_add.
create_cname(p) ==
    /\ pc[p] = "create"
    /\ \E resp \in Responses :
        LET error == checked_call_error(resp)
        IN  /\ Issue(p, "create", resp)
            /\ Returns(p, error)
            /\ dns' = IF error = None
                      THEN Append(dns, DnsRecord(NewId(dns), cmd[p].hostname))
                      ELSE dns
            /\ Return(p, cmd_add_result(error))
    /\ UNCHANGED << remote, cmd, config, fetched, record_id, stdout, base,
                    writes, started >>

\* match cf.find_record_id(hostname)? in cmd_remove; the None arm returns.
find_record_id(p) ==
    /\ pc[p] = "find"
    /\ \E resp \in Responses :
        LET error == find_record_id_error(resp)
            id    == find_record_id_value(dns, cmd[p].hostname, resp)
        IN  /\ Issue(p, "find", resp)
            /\ Returns(p, error)
            /\ IF error # None
               THEN /\ Return(p, Failure(error))
                    /\ UNCHANGED record_id
               ELSE IF id = None
               THEN /\ Return(p, SuccessWithWarning("RecordNotFound"))
                    /\ UNCHANGED record_id
               ELSE /\ record_id' = [record_id EXCEPT ![p] = id]
                    /\ pc' = [pc EXCEPT ![p] = "delete"]
                    /\ UNCHANGED result
    /\ UNCHANGED << remote, dns, cmd, config, fetched, stdout, base, writes,
                    started >>

\* cf.delete_record(&id)? in the Some arm of cmd_remove, and its return.
delete_record(p) ==
    /\ pc[p] = "delete"
    /\ \E resp \in Responses :
        LET error == delete_record_error(resp)
            other(r) == r.id # record_id[p]
        IN  /\ Issue(p, "delete", resp)
            /\ Returns(p, error)
            /\ dns' = IF resp = "ok" THEN SelectSeq(dns, other) ELSE dns
            /\ Return(p, cmd_remove_delete_result(error))
    /\ UNCHANGED << remote, cmd, config, fetched, record_id, stdout, base,
                    writes, started >>

\* One round trip, or the start, of the command process p.
Step(p) ==
    \/ main(p)
    \/ get_tunnel_config(p)
    \/ put_tunnel_config(p)
    \/ create_cname(p)
    \/ find_record_id(p)
    \/ delete_record(p)

\* Commands run one at a time, each to its end (main restarts process 1).
Next == Step(1)

Spec == Init /\ [][Next]_vars

\* main of a process that has run no command yet.
main_once(p) == pc[p] = "idle" /\ main(p)

\* Two commands against the same tunnel run concurrently, one on each
\* process; their round trips interleave in any order.
NextConc ==
    \E p \in Procs :
        \/ main_once(p)
        \/ get_tunnel_config(p)
        \/ put_tunnel_config(p)
        \/ create_cname(p)
        \/ find_record_id(p)
        \/ delete_record(p)

SpecConc == Init /\ [][NextConc]_vars

(* ------------------------------------------------------ claim vocabulary *)

Last(q) == q[Len(q)]

\* Some rule of the list names the hostname.
Present(ingress, hostname) ==
    \E i \in 1..Len(ingress) : ingress[i].hostname = hostname

\* The list is non-empty and its last rule has no hostname.
CatchAllLast(ingress) == ingress # << >> /\ Last(ingress).hostname = None

\* The command of p issued a round trip of this kind / one that ended so.
Issued(p, kind) == \E i \in 1..Len(calls[p]) : calls[p][i].kind = kind
IssuedWith(p, kind, resp) ==
    \E i \in 1..Len(calls[p]) : calls[p][i] = [kind |-> kind, resp |-> resp]

\* The ingress write of the command of p succeeded.
PutOk(p) == IssuedWith(p, "put", "ok")

\* The only round trip of the command of p is its successful fetch.
OnlyFetched(p) == calls[p] = << [kind |-> "get", resp |-> "ok"] >>

\* The (hostname, service) pairs a list command printed, in order.
Routes(lines) ==
    LET route(l) == l.kind = "route"
        picked   == SelectSeq(lines, route)
    IN  [i \in 1..Len(picked) |-> << picked[i].hostname, picked[i].service >>]

\* p ran list to its successful end and the last accepted write before it
\* was made by a command `op hostname`.
ListedAfter(p, op, hostname) ==
    /\ pc[p] = "done" /\ cmd[p].op = "list" /\ result[p] = Success
    /\ writes # << >>
    /\ Last(writes).cmd.op = op
    /\ Last(writes).cmd.hostname = hostname

(* ------------------------------------------------------------------ C1 *)

\* C1: when dig h s fetched a non-empty list whose last rule is the
\* catch-all and its write succeeded, the remote list is the fetched list
\* plus one rule: (h, s) sits immediately before the last rule and the last
\* rule is the fetched catch-all; a list command that follows prints (h, s)
\* as its last route.
C1_AddBeforeCatchAll ==
    /\ \A p \in Procs :
        (cmd[p].op = "add" /\ PutOk(p) /\ CatchAllLast(fetched[p].ingress)) =>
            LET f == fetched[p].ingress
                w == DeserializeConfig(remote).ingress
            IN  /\ Len(w) = Len(f) + 1
                /\ w[Len(w) - 1].hostname = cmd[p].hostname
                /\ w[Len(w) - 1].service = cmd[p].service
                /\ w[Len(w)] = Last(f)
                /\ CatchAllLast(w)
    /\ \A p \in Procs : \A h \in Hostnames :
        (ListedAfter(p, "add", h)
            /\ CatchAllLast(Last(writes).before.ingress)) =>
            /\ Routes(stdout[p]) # << >>
            /\ Last(Routes(stdout[p])) = << h, Last(writes).cmd.service >>

\* A list command ran after a dig on a list ending in the catch-all whose
\* write succeeded.
C1_Witness ==
    \E h \in Hostnames :
        /\ ListedAfter(1, "add", h)
        /\ CatchAllLast(Last(writes).before.ingress)
        /\ Len(Last(writes).before.ingress) > 1

(* ------------------------------------------------------------------ C2 *)

\* C2: when the list dig h s fetched already names h, the command fails with
\* DuplicateRoute having issued the fetch only (no PUT, no DNS call), and
\* the remote list and the DNS records are as they were when it started.
C2_DuplicateRejected ==
    \A p \in Procs :
        (cmd[p].op = "add" /\ IssuedWith(p, "get", "ok")
            /\ Present(fetched[p].ingress, cmd[p].hostname)) =>
            /\ pc[p] = "done"
            /\ result[p] = Failure("DuplicateRoute")
            /\ OnlyFetched(p)
            /\ remote = base[p].remote
            /\ dns = base[p].dns

C2_Witness ==
    /\ cmd[1].op = "add" /\ pc[1] = "done"
    /\ Present(fetched[1].ingress, cmd[1].hostname)
    /\ result[1].error = "DuplicateRoute"

(* ------------------------------------------------------------------ C3 *)

\* C3: when the write of plug h succeeded, no rule of the remote list names
\* h, however many did before; a list command that follows prints no route
\* for h.
C3_RemovedEverywhere ==
    /\ \A p \in Procs :
        (cmd[p].op = "remove" /\ PutOk(p)) =>
            ~ Present(remote.ingress, cmd[p].hostname)
    /\ \A p \in Procs : \A h \in Hostnames :
        ListedAfter(p, "remove", h) =>
            \A i \in 1..Len(stdout[p]) : stdout[p][i].hostname # h

\* A list command ran after a plug h that found h in two rules.
C3_Witness ==
    \E h \in Hostnames :
        /\ ListedAfter(1, "remove", h)
        /\ Cardinality({ i \in 1..Len(Last(writes).before.ingress) :
                            Last(writes).before.ingress[i].hostname = h }) = 2

(* ------------------------------------------------------------------ C4 *)

\* C4: when no rule of the list plug h fetched names h, the command fails
\* with RouteNotFound having issued the fetch only (no PUT, no DNS lookup or
\* delete), and the remote list is as it was when the command started.
C4_AbsentRejected ==
    \A p \in Procs :
        (cmd[p].op = "remove" /\ IssuedWith(p, "get", "ok")
            /\ ~ Present(fetched[p].ingress, cmd[p].hostname)) =>
            /\ pc[p] = "done"
            /\ result[p] = Failure("RouteNotFound")
            /\ OnlyFetched(p)
            /\ remote = base[p].remote
            /\ dns = base[p].dns

C4_Witness ==
    /\ cmd[1].op = "remove" /\ pc[1] = "done"
    /\ fetched[1].ingress # << >>
    /\ ~ Present(fetched[1].ingress, cmd[1].hostname)
    /\ result[1].error = "RouteNotFound"

(* ------------------------------------------------------------------ C5 *)

\* The remote configuration right after the i-th accepted write.
AfterWrite(i) == IF i = Len(writes) THEN remote ELSE writes[i + 1].before

\* C5: when the write of dig h s on a list ending in the catch-all is
\* followed, with no write in between, by the write of plug h, the remote
\* list after the second write equals the list before the first, rule by
\* rule and in order.
C5_RoundTrip ==
    \A i \in 1..(Len(writes) - 1) :
        (/\ writes[i].cmd.op = "add"
         /\ writes[i + 1].cmd.op = "remove"
         /\ writes[i + 1].cmd.hostname = writes[i].cmd.hostname
         /\ CatchAllLast(writes[i].before.ingress)) =>
            AfterWrite(i + 1).ingress = writes[i].before.ingress

\* The same round trip seen through struct IngressRule: the declared keys
\* of every rule are restored.
C5_RoundTripDeclaredKeys ==
    \A i \in 1..(Len(writes) - 1) :
        (/\ writes[i].cmd.op = "add"
         /\ writes[i + 1].cmd.op = "remove"
         /\ writes[i + 1].cmd.hostname = writes[i].cmd.hostname
         /\ CatchAllLast(writes[i].before.ingress)) =>
            DeserializeConfig(AfterWrite(i + 1)) = DeserializeConfig(writes[i].before)

(* ------------------------------------------------------------------ C6 *)

NoRecordNamed(records, hostname) ==
    \A k \in 1..Len(records) : records[k].name # hostname

\* C6: when the write of dig h s succeeded and create_cname failed (remote
\* or transport failure), the command ends with success and the DnsSyncFailed
\* warning, the remote list holds (h, s) and no record was created; a list
\* command that follows prints (h, s) while no DNS record names h.
C6_CreateFailureIsWarning ==
    /\ \A p \in Procs :
        (cmd[p].op = "add" /\ Issued(p, "create")
            /\ ~ IssuedWith(p, "create", "ok")) =>
            /\ pc[p] = "done"
            /\ result[p] = SuccessWithWarning("DnsSyncFailed")
            /\ \E i \in 1..Len(remote.ingress) :
                /\ remote.ingress[i].hostname = cmd[p].hostname
                /\ remote.ingress[i].service = cmd[p].service
            /\ dns = base[p].dns
    /\ \A p \in Procs : \A h \in Hostnames :
        (ListedAfter(p, "add", h) /\ NoRecordNamed(dns, h)) =>
            \E i \in 1..Len(Routes(stdout[p])) :
                Routes(stdout[p])[i] = << h, Last(writes).cmd.service >>

\* A list command ran after a dig h whose write succeeded, and no DNS
\* record names h.
C6_Witness ==
    \E h \in Hostnames : ListedAfter(1, "add", h) /\ NoRecordNamed(dns, h)

(* ------------------------------------------------------------------ C7 *)

\* C7: when plug h issued the DNS delete and the delete failed, the command
\* does not end in failure.
C7_DeleteFailureIsWarning ==
    \A p \in Procs :
        (cmd[p].op = "remove" /\ pc[p] = "done" /\ Issued(p, "delete")
            /\ ~ IssuedWith(p, "delete", "ok")) =>
            result[p].outcome # "Failure"

(* ------------------------------------------------------------------ C8 *)

\* C8: a dig or plug whose ingress write succeeded ends with Success or
\* SuccessWithWarning, whatever the later DNS round trips do.
C8_NoFailureAfterCommit ==
    \A p \in Procs :
        (PutOk(p) /\ pc[p] = "done") =>
            result[p].outcome \in {"Success", "SuccessWithWarning"}

(* ------------------------------------------------------------------ C9 *)

\* C9: when the write of plug h succeeded and the DNS lookup answers with no
\* record named h, the command ends with success and the RecordNotFound
\* warning and issues no delete.
C9_LookupMissIsWarning ==
    \A p \in Procs :
        (cmd[p].op = "remove" /\ IssuedWith(p, "find", "ok")
            /\ NoRecordNamed(base[p].dns, cmd[p].hostname)) =>
            /\ pc[p] = "done"
            /\ result[p] = SuccessWithWarning("RecordNotFound")
            /\ ~ Issued(p, "delete")
            /\ dns = base[p].dns

\* A plug ended after a lookup that found no record, in a zone that holds
\* records of other names.
C9_Witness ==
    /\ cmd[1].op = "remove" /\ pc[1] = "done"
    /\ IssuedWith(1, "find", "ok")
    /\ NoRecordNamed(base[1].dns, cmd[1].hostname)
    /\ base[1].dns # << >>

(* ----------------------------------------------------------------- C10 *)

\* Two commands wrote, p first and q last, and q had fetched the list as it
\* was before the write of p.
Raced(p, q) ==
    /\ p # q
    /\ Len(writes) = 2
    /\ writes[1].proc = p
    /\ writes[2].proc = q
    /\ fetched[q] = DeserializeConfig(writes[1].before)

\* C10: when two concurrent commands both fetch before either writes, the
\* remote list ends as exactly the list of the last writer: a route the
\* first writer added is gone (one it removed is back), and the first
\* writer, if a dig, still ends with success.
C10_LostUpdate ==
    \A p, q \in Procs :
        Raced(p, q) =>
            /\ remote = SerializeConfig(config[q])
            /\ cmd[q].hostname # cmd[p].hostname =>
                 (Present(remote.ingress, cmd[p].hostname)
                     <=> cmd[p].op = "remove")
            /\ (cmd[p].op = "add" /\ pc[p] = "done") =>
                 result[p].outcome \in {"Success", "SuccessWithWarning"}

\* dig h1 and dig h2 raced, both ended with success, and the remote list
\* holds h2 but not h1.
C10_Witness ==
    \E p, q \in Procs :
        /\ Raced(p, q)
        /\ cmd[p].op = "add" /\ cmd[q].op = "add"
        /\ cmd[p].hostname # cmd[q].hostname
        /\ pc[p] = "done" /\ pc[q] = "done"
        /\ result[p] = Success /\ result[q] = Success
        /\ Present(remote.ingress, cmd[q].hostname)
        /\ ~ Present(remote.ingress, cmd[p].hostname)

(* ----------------------------------------------------------------- C11 *)

\* The services of the hostname-less rules of a list, in order.
CatchAllServices(ingress) ==
    LET bare(r) == r.hostname = None
        picked  == SelectSeq(ingress, bare)
    IN  [i \in 1..Len(picked) |-> picked[i].service]

\* The (hostname, service) pairs of the rules that name a hostname, in order.
HostPairs(ingress) ==
    LET named(r) == r.hostname # None
        picked   == SelectSeq(ingress, named)
    IN  [i \in 1..Len(picked) |-> << picked[i].hostname, picked[i].service >>]

Without(q, k) == SubSeq(q, 1, k - 1) \o SubSeq(q, k + 1, Len(q))

\* The rules of the list before the i-th accepted write that its command
\* does not remove.
KeptRules(i) ==
    LET keep(r) == r.hostname # writes[i].cmd.hostname
    IN  IF writes[i].cmd.op = "remove"
        THEN SelectSeq(writes[i].before.ingress, keep)
        ELSE writes[i].before.ingress

\* The rules after the i-th accepted write other than the one a dig added.
CarriedRules(i) ==
    LET after == AfterWrite(i).ingress
    IN  IF writes[i].cmd.op = "add" THEN Without(after, Len(after) - 1)
        ELSE after

\* C12: every accepted write of dig or plug carries each rule it does not
\* remove over to the remote list unchanged, key for key and in the same
\* order, and leaves the other configuration fields as they were; the rule a
\* dig adds has no payload beside hostname and service.
C12_OpaquePassthrough ==
    \A i \in 1..Len(writes) :
        /\ CarriedRules(i) = KeptRules(i)
        /\ AfterWrite(i).extra = writes[i].before.extra
        /\ writes[i].cmd.op = "add" =>
            LET after == AfterWrite(i).ingress
            IN  /\ after[Len(after) - 1].originRequest = None
                /\ after[Len(after) - 1].undeclared = None

\* The same through struct IngressRule: hostname, service and originRequest
\* of every carried rule, their order, and the other configuration fields
\* are written back as fetched.
C12_PassthroughDeclaredKeys ==
    \A i \in 1..Len(writes) :
        /\ [k \in 1..Len(CarriedRules(i)) |-> DeserializeRule(CarriedRules(i)[k])]
             = [k \in 1..Len(KeptRules(i)) |-> DeserializeRule(KeptRules(i)[k])]
        /\ AfterWrite(i).extra = writes[i].before.extra
        /\ writes[i].cmd.op = "add" =>
            LET after == AfterWrite(i).ingress
            IN  after[Len(after) - 1].originRequest = None

(* ----------------------------------------------------------------- C13 *)

\* Invariant A: the list is not empty.
InvariantA(ingress) == ingress # << >>

\* Invariant B: the last rule, and no other, has no hostname.
InvariantB(ingress) ==
    /\ ingress # << >>
    /\ \A i \in 1..Len(ingress) : ingress[i].hostname = None <=> i = Len(ingress)

\* Invariant C: no two rules name the same hostname.
InvariantC(ingress) ==
    \A i, j \in 1..Len(ingress) :
        (i # j /\ ingress[i].hostname # None) =>
            ingress[i].hostname # ingress[j].hostname

WellFormed(ingress) ==
    InvariantA(ingress) /\ InvariantB(ingress) /\ InvariantC(ingress)

\* The remote configuration before the first accepted write.
InitialRemote == IF writes = << >> THEN remote ELSE writes[1].before

\* C13: when the list a dig or plug fetched satisfies invariants A, B and C,
\* so does the list it writes back; and with commands run one at a time, a
\* remote list that satisfied them initially satisfies them ever after.
C13_InvariantsPreserved ==
    /\ \A p \in Procs :
        (Issued(p, "put") /\ WellFormed(fetched[p].ingress)) =>
            WellFormed(config[p].ingress)
    /\ WellFormed(InitialRemote.ingress) => WellFormed(remote.ingress)

\* A dig and then a plug wrote to a list that was well formed initially.
C13_Witness ==
    /\ Len(writes) = 2
    /\ writes[1].cmd.op = "add"
    /\ writes[2].cmd.op = "remove"
    /\ WellFormed(InitialRemote.ingress)
    /\ remote.ingress # InitialRemote.ingress

(* ----------------------------------------------------------------- C14 *)

\* The error a failed fetch is reported as.
FetchError(resp) ==
    CASE resp = "api_error"  -> "ApiError"
      [] resp = "transport"  -> "TransportFailure"
      [] resp = "no_payload" -> "MissingPayload"
      [] OTHER               -> None

\* C14: when the fetch of a dig or plug fails (success=false, transport
\* failure, or success with no payload), the command ends in failure with
\* that error, has issued no other round trip, and the remote list and the
\* DNS records are as they were.
C14_FetchFailFast ==
    \A p \in Procs :
        (cmd[p].op \in {"add", "remove"} /\ Issued(p, "get")
            /\ ~ IssuedWith(p, "get", "ok")) =>
            /\ pc[p] = "done"
            /\ Len(calls[p]) = 1
            /\ result[p] = Failure(FetchError(calls[p][1].resp))
            /\ remote = base[p].remote
            /\ dns = base[p].dns

\* A dig ended on a fetch that reported success without a payload.
C14_Witness ==
    /\ cmd[1].op = "add" /\ pc[1] = "done"
    /\ calls[1] = << [kind |-> "get", resp |-> "no_payload"] >>
    /\ result[1].error = "MissingPayload"

(* ----------------------------------------------------------------- C15 *)

DnsKinds == {"create", "find", "delete"}

\* C15: within one dig or plug, a DNS round trip comes only after the
\* command's own successful write, and the write only after its own
\* successful fetch; when the write fails the command ends in failure and
\* issues no DNS round trip.
C15_CallOrder ==
    \A p \in Procs :
        /\ \A i \in 1..Len(calls[p]) :
            /\ calls[p][i].kind \in DnsKinds =>
                \E j \in 1..(i - 1) : calls[p][j] = [kind |-> "put", resp |-> "ok"]
            /\ calls[p][i].kind = "put" =>
                \E j \in 1..(i - 1) : calls[p][j] = [kind |-> "get", resp |-> "ok"]
        /\ (Issued(p, "put") /\ ~ PutOk(p)) =>
            /\ pc[p] = "done"
            /\ result[p].outcome = "Failure"
            /\ \A i \in 1..Len(calls[p]) : calls[p][i].kind \notin DnsKinds

\* A plug ended on a write the remote rejected.
C15_Witness ==
    /\ cmd[1].op = "remove" /\ pc[1] = "done"
    /\ IssuedWith(1, "put", "api_error")
    /\ result[1] = Failure("ApiError")

(* ----------------------------------------------------------------- C16 *)

\* C16: when the list dig h s fetched is empty, the command fails with
\* InvariantViolation (no catch-all rule) having issued the fetch only, and
\* the remote list and the DNS records are as they were.
C16_EmptyListRejected ==
    \A p \in Procs :
        (cmd[p].op = "add" /\ IssuedWith(p, "get", "ok")
            /\ fetched[p].ingress = << >>) =>
            /\ pc[p] = "done"
            /\ result[p] = Failure("InvariantViolation")
            /\ OnlyFetched(p)
            /\ remote = base[p].remote
            /\ dns = base[p].dns

\* A dig ended on an empty remote list.
C16_Witness ==
    /\ cmd[1].op = "add" /\ pc[1] = "done"
    /\ OnlyFetched(1)
    /\ remote.ingress = << >>
    /\ result[1].error = "InvariantViolation"

(* ----------------------------------------------------------------- C17 *)

\* C17: every CfClient call the remote answers with success=false returns
\* an ApiError.
C17_EnvelopeNormalized ==
    \A p \in Procs : \A i \in 1..Len(calls[p]) :
        calls[p][i].resp = "api_error" => returned[p][i] = "ApiError"

\* The same for the three calls that read resp.success.
C17_CheckedCallsNormalized ==
    \A p \in Procs : \A i \in 1..Len(calls[p]) :
        (calls[p][i].resp = "api_error"
            /\ calls[p][i].kind \in {"get", "put", "create"}) =>
            returned[p][i] = "ApiError"

(* ----------------------------------------------------------------- C18 *)

\* C18: within one command no kind of round trip (fetch, write, DNS create,
\* lookup, delete) is issued twice, so none is tried again after it failed.
C18_NoRetries ==
    \A p \in Procs : \A i, j \in 1..Len(calls[p]) :
        i # j => calls[p][i].kind # calls[p][j].kind

\* A plug went through its four round trips and ended on a failed delete.
C18_Witness ==
    /\ cmd[1].op = "remove" /\ pc[1] = "done"
    /\ Len(calls[1]) = 4
    /\ calls[1][4] = [kind |-> "delete", resp |-> "transport"]

(* ----------------------------------------------------------------- C19 *)

\* The positions of the records with this name.
Named(records, hostname) ==
    { k \in 1..Len(records) : records[k].name = hostname }

FirstNamed(records, hostname) ==
    CHOOSE k \in Named(records, hostname) :
        \A m \in Named(records, hostname) : k <= m

Hosts(ingress) ==
    { ingress[i].hostname : i \in 1..Len(ingress) } \ { None }

\* The hostnames that have a DNS record.
Names(records) == { records[k].name : k \in 1..Len(records) }

\* The list is well formed and the hostnames with a record are the
\* hostnames it names.
InSync(r, d) == WellFormed(r.ingress) /\ Names(d) = Hosts(r.ingress)

\* No hostname has two records.
OneRecordEach(d) ==
    \A k, m \in 1..Len(d) : k # m => d[k].name # d[m].name

\* Every round trip of the command of p ended with success.
AllOk(p) == \A i \in 1..Len(calls[p]) : calls[p][i].resp = "ok"

\* C20 as stated: a command that starts with the list well formed and the
\* DNS names equal to its hostnames, and whose round trips all succeed, ends
\* in such a state.
C20_InSyncPreserved ==
    \A p \in Procs :
        (pc[p] = "done" /\ AllOk(p) /\ InSync(base[p].remote, base[p].dns)) =>
            InSync(remote, dns)

\* C20, amended: the same when, in addition, no hostname has more than one
\* DNS record at the start; that too holds again at the end, so it carries
\* over any sequence of commands run one at a time.
C20_InSyncPreservedOneRecordEach ==
    \A p \in Procs :
        (pc[p] = "done" /\ AllOk(p) /\ InSync(base[p].remote, base[p].dns)
            /\ OneRecordEach(base[p].dns)) =>
            (InSync(remote, dns) /\ OneRecordEach(dns))

\* A dig and then a plug, every round trip succeeding, ran from a state in
\* sync to a state in sync.
C20_Witness ==
    /\ Len(writes) = 2
    /\ writes[1].cmd.op = "add"
    /\ writes[2].cmd.op = "remove"
    /\ pc[1] = "done" /\ AllOk(1) /\ result[1] = Success
    /\ WellFormed(InitialRemote.ingress)
    /\ InSync(base[1].remote, base[1].dns) /\ OneRecordEach(base[1].dns)
    /\ Len(base[1].dns) = 2
    /\ InSync(remote, dns) /\ OneRecordEach(dns)
    /\ Len(dns) = 1

\* A dig whose write succeeded and whose create_cname failed ended, from a
\* state in sync, in a state where the list names a hostname without
\* record.
C20_OutOfSync ==
    /\ cmd[1].op = "add" /\ pc[1] = "done" /\ PutOk(1)
    /\ ~ IssuedWith(1, "create", "ok")
    /\ InSync(base[1].remote, base[1].dns) /\ OneRecordEach(base[1].dns)
    /\ Names(dns) # Hosts(remote.ingress)
====
